---- MODULE Spec2Model ----
(***************************************************************************)
(* A model of gha-optimizer's cost model (utils/helpers.py) and of the     *)
(* recommendation normalizer (analyzers/ai_analyzer.py).                   *)
(*                                                                         *)
(* Numbers.  Python floats are modelled by exact fixed-point integers:     *)
(*   time            whole minutes                                         *)
(*   runs_per_week   thirtieths of a run per week (30 = one run a week)    *)
(*   rate            multiples of 0.008 USD per minute (1 = 0.008 USD)     *)
(*   runs            1/3000 of a run (monthly_runs = runs_per_week * 4.33) *)
(*   money           1/375000 USD (one rate unit times one run unit)       *)
(*   confidence      hundredths                                            *)
(* so that every product the code forms is an integer and no rounding      *)
(* takes place.  Float rounding error is outside the model.                *)
(***************************************************************************)
EXTENDS Integers, Sequences, FiniteSets, TLC

VARIABLES
    call,            \* cost model: the last call made, with its arguments and result
    repository_stats,\* normalizer: the usage statistics of the invocation
    ai_response,     \* normalizer: the raw suggestions handed to _parse_ai_recommendations
    parsed,          \* normalizer: the outcome of the last _parse_ai_recommendations call
    passes,          \* normalizer: how many times the output was fed back as input
    ai_provider,     \* client: config.ai_provider
    api,             \* client: _call_anthropic_api, its position, counters and result
    analysis,        \* client: analyze_workflows, its position and result
    log,             \* client: the requests, responses and sleeps so far, in order
    content,         \* repair: the response text given to _extract_json_from_response
    extracted,       \* repair: what _extract_json_from_response returned
    local_docs,      \* documentation: the local_docs flag of each analyzer
    sources,         \* documentation: which sources answer, and how
    cache,           \* documentation: the lru_cache of _get_optimization_patterns_from_docs
    threads,         \* documentation: each caller's position in the cached call
    probes,          \* documentation: the probes and loads so far, in order
    workflows,       \* prompt: the workflow sources, path and lines, in input order
    optimization_patterns, \* prompt: what the documentation resolver gave, or its error
    generated,       \* prompt: what generate_prompt_only returned
    submitted,       \* prompt: the prompts analyze_workflows handed to _call_ai_api
    impact,          \* scan: what _calculate_impact_from_ai_recommendations returned
    scan             \* scan: the arguments and configuration of execute, and its result

costVars == <<call>>
normVars == <<repository_stats, ai_response, parsed, passes>>
clientVars == <<ai_provider, api, analysis, log>>
repairVars == <<content, extracted>>
docVars == <<local_docs, sources, cache, threads, probes>>
promptVars == <<workflows, optimization_patterns, generated, submitted>>
scanVars == <<impact, scan>>

vars == <<costVars, normVars, clientVars, repairVars, docVars, promptVars, scanVars>>

---------------------------------------------------------------------------
(* Units *)

Dollars(d) == d * 375000
Cents(c) == c * 3750
RunsPerWeek(n) == n * 30
\* n whole runs, in run units
Runs(n) == n * 3000

Abs(x) == IF x < 0 THEN -x ELSE x

---------------------------------------------------------------------------
(* utils/helpers.py: calculate_github_actions_cost *)

\* 4.33 weeks per month, in hundredths
WeeksPerMonth == 433

\* the rate of ubuntu-latest, also the default of an unknown runner: 0.008 USD
DefaultRate == 1

runner_costs ==
    ("ubuntu-latest" :> 1) @@ ("ubuntu-latest-4-core" :> 2) @@
    ("ubuntu-latest-8-core" :> 4) @@ ("windows-latest" :> 2) @@
    ("macos-latest" :> 10) @@ ("macos-latest-large" :> 20)

\* runner_costs.get(runner_type, 0.008)
CostPerMinute(runner_type) ==
    IF runner_type \in DOMAIN runner_costs THEN runner_costs[runner_type] ELSE DefaultRate

\* a plausible slip: the guard written as runs_per_week < 0
calculate_cost_strict_guard(time_minutes, runner_type, runs_per_week) ==
    LET cost_per_minute == CostPerMinute(runner_type) IN
    IF runs_per_week < 0
    THEN time_minutes * cost_per_minute * Runs(1)
    ELSE time_minutes * cost_per_minute * (runs_per_week * WeeksPerMonth)

\* a plausible slip: the default rate used for every runner
calculate_cost_flat_rate(time_minutes, runner_type, runs_per_week) ==
    IF runs_per_week <= 0
    THEN time_minutes * DefaultRate * Runs(1)
    ELSE time_minutes * DefaultRate * (runs_per_week * WeeksPerMonth)

calculate_github_actions_cost(time_minutes, runner_type, runs_per_week) ==
    LET cost_per_minute == CostPerMinute(runner_type) IN
    IF runs_per_week <= 0
    THEN time_minutes * cost_per_minute * Runs(1)
    ELSE LET monthly_runs == runs_per_week * WeeksPerMonth
         IN  time_minutes * cost_per_minute * monthly_runs

---------------------------------------------------------------------------
(* utils/helpers.py: validate_cost_calculation *)

\* runs per week assumed when none is known (whole runs)
DefaultRunsPerWeek == 50
\* percentage of variance allowed
TolerancePct == 25
\* claimed monthly savings above this many USD are flagged
MaxMonthlySavings == 1000
\* time savings above this many minutes per run are flagged
MaxTimeSavings == 60

\* a * p < b * q for a, b >= 0 and p, q > 0, without forming the products
ScaledLess(a, p, b, q) ==
    LET qa == a \div q
        ra == a % q
        qb == b \div p
        rb == b % p
    IN  qa < qb \/ (qa = qb /\ ra * p < rb * q)

\* difference / expected * 100, kept as the exact fraction 100 * num / den
Percentage(difference, expected) == [num |-> difference, den |-> expected]
\* the literal 100.0 of the edge case
HundredPercent == [num |-> 1, den |-> 1]

\* a plausible slip: the rule on time savings left out
IsReasonableNoTimeRule(time_savings, monthly_savings, percentage_diff) ==
    /\ ScaledLess(percentage_diff.num, 100, percentage_diff.den, TolerancePct)
    /\ ~ (monthly_savings > Dollars(MaxMonthlySavings))

\* a plausible slip: percentage_diff <= 25
IsReasonableInclusive(time_savings, monthly_savings, percentage_diff) ==
    /\ ~ ScaledLess(percentage_diff.den, TolerancePct, percentage_diff.num, 100)
    /\ ~ (monthly_savings > Dollars(MaxMonthlySavings))
    /\ ~ (time_savings > MaxTimeSavings)

\* is_reasonable = percentage_diff < 25, then the two flags
IsReasonable(time_savings, monthly_savings, percentage_diff) ==
    /\ ScaledLess(percentage_diff.num, 100, percentage_diff.den, TolerancePct)
    /\ ~ (monthly_savings > Dollars(MaxMonthlySavings))
    /\ ~ (time_savings > MaxTimeSavings)

\* the dictionary returned when expected_savings <= 0 (it has no runs_per_week key;
\* the "recommendation" message of both dictionaries is left out)
ZeroExpected(monthly_savings) ==
    [is_reasonable |-> FALSE,
     expected_savings |-> 0,
     actual_savings |-> monthly_savings,
     difference |-> monthly_savings,
     percentage_difference |-> HundredPercent,
     validation_method |-> "zero_expected"]

\* the dictionary returned otherwise
Validated(time_savings, monthly_savings, runs, expected_savings) ==
    LET difference == Abs(monthly_savings - expected_savings)
        percentage_diff == Percentage(difference, expected_savings)
    IN  [is_reasonable |-> IsReasonable(time_savings, monthly_savings, percentage_diff),
         expected_savings |-> expected_savings,
         actual_savings |-> monthly_savings,
         difference |-> difference,
         percentage_difference |-> percentage_diff,
         runs_per_week |-> runs,
         validation_method |->
             IF runs > RunsPerWeek(DefaultRunsPerWeek)
             THEN "usage_based" ELSE "conservative_default"]

\* if runs_per_week <= 0: runs_per_week = 50
EffectiveRuns(runs_per_week) ==
    IF runs_per_week <= 0 THEN RunsPerWeek(DefaultRunsPerWeek) ELSE runs_per_week

\* a plausible slip: the edge case guarded by expected_savings < 0
validate_strict_edge(time_savings, monthly_savings, runs_per_week, runner_type) ==
    LET runs == EffectiveRuns(runs_per_week)
        expected_savings == calculate_github_actions_cost(time_savings, runner_type, runs)
    IN  IF expected_savings < 0
        THEN ZeroExpected(monthly_savings)
        ELSE Validated(time_savings, monthly_savings, runs, expected_savings)

validate_cost_calculation(time_savings, monthly_savings, runs_per_week, runner_type) ==
    LET runs == EffectiveRuns(runs_per_week)
        expected_savings == calculate_github_actions_cost(time_savings, runner_type, runs)
    IN  IF expected_savings <= 0
        THEN ZeroExpected(monthly_savings)
        ELSE Validated(time_savings, monthly_savings, runs, expected_savings)

---------------------------------------------------------------------------
(* The cost model called on its own: the inputs of the calls *)

\* |time| * rate * runs_per_week of a call stays below this, so that money fits
MaxCostProduct == 1000000

TimeValues == {-1, 0, 1, 3, 60, 61}
RunnerTypes == DOMAIN runner_costs \cup {"self-hosted"}
RunsValues == {RunsPerWeek(-1), 0, 15, RunsPerWeek(1), RunsPerWeek(50), RunsPerWeek(70)}

CostInputs ==
    {in \in TimeValues \X RunnerTypes \X RunsValues :
        Abs(in[1]) * CostPerMinute(in[2]) * EffectiveRuns(in[3]) <= MaxCostProduct}

\* the claimed savings tried against an expected value e: fixed amounts, e itself,
\* and the values at and next to a quarter of e above and below it
ClaimedValues(e) ==
    {Dollars(-1), 0, Cents(3119), Dollars(1000), Dollars(1000) + 1, Dollars(1001)}
    \cup (IF e > 0
          THEN {e, e - e \div 4, e + e \div 4, e - e \div 4 + 1, e + e \div 4 - 1}
          ELSE {})

\* a call that has not returned yet carries its arguments only
CalculateCalls ==
    {[fn |-> "calculate_github_actions_cost", returned |-> FALSE,
      time_minutes |-> in[1], runner_type |-> in[2], runs_per_week |-> in[3]] :
        in \in CostInputs}

ValidateCalls ==
    UNION {{[fn |-> "validate_cost_calculation", returned |-> FALSE,
             time_savings |-> in[1], monthly_savings |-> claimed,
             runs_per_week |-> in[3], runner_type |-> in[2]] :
                claimed \in ClaimedValues(
                    calculate_github_actions_cost(in[1], in[2], EffectiveRuns(in[3])))} :
           in \in CostInputs}

NoCall == [fn |-> "none", returned |-> FALSE]

InitCostIdle == call = NoCall

InitClientIdle ==
    /\ ai_provider = "anthropic"
    /\ api = [pc |-> "idle"]
    /\ analysis = [pc |-> "idle"]
    /\ log = <<>>

InitRepairIdle ==
    /\ content = <<>>
    /\ extracted = [returned |-> FALSE]

InitDocIdle ==
    /\ local_docs = <<>>
    /\ sources = [absent |-> TRUE]
    /\ cache = <<>>
    /\ threads = <<>>
    /\ probes = <<>>

InitPromptIdle ==
    /\ workflows = <<>>
    /\ optimization_patterns = [kind |-> "none"]
    /\ generated = [pc |-> "idle"]
    /\ submitted = <<>>

InitScanIdle ==
    /\ impact = [pc |-> "idle"]
    /\ scan = [pc |-> "idle"]

InitNormalizerIdle ==
    /\ repository_stats = [absent |-> TRUE]
    /\ ai_response = <<>>
    /\ parsed = [state |-> "idle"]
    /\ passes = 0

InitCost ==
    /\ InitPromptIdle
    /\ InitScanIdle
    /\ call \in CalculateCalls \cup ValidateCalls
    /\ InitNormalizerIdle
    /\ InitClientIdle
    /\ InitRepairIdle
    /\ InitDocIdle

Calculate ==
    /\ call.fn = "calculate_github_actions_cost"
    /\ ~ call.returned
    /\ call' = [call EXCEPT !.returned = TRUE] @@
               [result |-> calculate_github_actions_cost(
                    call.time_minutes, call.runner_type, call.runs_per_week)]
    /\ UNCHANGED <<normVars, clientVars, repairVars, docVars, promptVars, scanVars>>

Validate ==
    /\ call.fn = "validate_cost_calculation"
    /\ ~ call.returned
    /\ call' = [call EXCEPT !.returned = TRUE] @@
               [result |-> validate_cost_calculation(
                    call.time_savings, call.monthly_savings,
                    call.runs_per_week, call.runner_type)]
    /\ UNCHANGED <<normVars, clientVars, repairVars, docVars, promptVars, scanVars>>

NextCost == Calculate \/ Validate

SpecCost == InitCost /\ [][NextCost]_vars

Calculated == call.fn = "calculate_github_actions_cost" /\ call.returned
ValidatedCall == call.fn = "validate_cost_calculation" /\ call.returned

\* the rate of the claims: the table entry, ubuntu-latest's for an unknown runner
RateOf(runner_type) ==
    IF runner_type \in DOMAIN runner_costs
    THEN runner_costs[runner_type] ELSE runner_costs["ubuntu-latest"]

(* C3: in monthly mode (time_minutes >= 0, runs_per_week > 0) the cost is exactly
   time_minutes * rate(runner) * runs_per_week * 4.33. *)
C3_MonthlyMode ==
    (Calculated /\ call.time_minutes >= 0 /\ call.runs_per_week > 0)
        => call.result =
             call.time_minutes * RateOf(call.runner_type) * call.runs_per_week * 433

C3_Witness ==
    /\ Calculated
    /\ call.time_minutes = 3
    /\ call.runner_type = "macos-latest"
    /\ call.runs_per_week = RunsPerWeek(70)
    /\ call.result = 3 * 10 * 2100 * 433

(* C4: for runs_per_week <= 0 the cost is the flat per-run cost time_minutes * rate,
   the same for every such runs_per_week and free of the 4.33 monthly constant. *)
C4_FlatMode ==
    (Calculated /\ call.runs_per_week <= 0)
        => call.result = call.time_minutes * RateOf(call.runner_type) * Runs(1)

C4_Witness ==
    /\ Calculated
    /\ call.runs_per_week = 0
    /\ call.time_minutes = 3
    /\ call.runner_type = "windows-latest"
    /\ call.result = 3 * 2 * Runs(1)

(* C5: every validate call with runs_per_week <= 0 returns an outcome that has the
   runs_per_week field, with value 50. *)
C5_AppliedRunsAlways50 ==
    (ValidatedCall /\ call.runs_per_week <= 0)
        => /\ "runs_per_week" \in DOMAIN call.result
           /\ call.result.runs_per_week = RunsPerWeek(50)

(* C6: claimed savings above 1000 USD or time savings above 60 minutes are never
   reasonable, whatever the percentage difference. *)
C6_HardOverrides ==
    (ValidatedCall /\ (call.monthly_savings > Dollars(1000) \/ call.time_savings > 60))
        => ~ call.result.is_reasonable

C6_Witness ==
    /\ ValidatedCall
    /\ call.time_savings > 60
    /\ call.monthly_savings <= Dollars(1000)
    /\ call.monthly_savings = call.result.expected_savings
    /\ ~ call.result.is_reasonable

(* C7: with expected > 0, claimed <= 1000 USD and time <= 60 minutes, the outcome is
   reasonable exactly when |claimed - expected| is strictly less than 25% of expected
   (four times the difference is less than expected). *)
C7_Tolerance ==
    (/\ ValidatedCall
     /\ call.result.expected_savings > 0
     /\ call.monthly_savings <= Dollars(1000)
     /\ call.time_savings <= 60)
        => (call.result.is_reasonable <=>
              Abs(call.monthly_savings - call.result.expected_savings) * 4
                  < call.result.expected_savings)

C7_Witness ==
    /\ ValidatedCall
    /\ call.result.expected_savings > 0
    /\ call.monthly_savings <= Dollars(1000)
    /\ call.time_savings <= 60
    /\ (call.result.expected_savings - call.monthly_savings) * 4
           = call.result.expected_savings
    /\ ~ call.result.is_reasonable

(* C8: when time_savings <= 0 (expected <= 0) the outcome is not reasonable, its
   percentage_difference is 100 and its expected_savings is 0, for every claimed
   value. *)
C8_ZeroExpected ==
    (ValidatedCall /\ call.time_savings <= 0)
        => /\ ~ call.result.is_reasonable
           /\ call.result.percentage_difference = HundredPercent
           /\ call.result.expected_savings = 0

C8_Witness ==
    /\ ValidatedCall
    /\ call.time_savings = 0
    /\ call.monthly_savings = 0
    /\ ~ call.result.is_reasonable
    /\ call.result.percentage_difference = HundredPercent

---------------------------------------------------------------------------
(* analyzers/ai_analyzer.py: the values of a decoded JSON payload *)

\* A string is a sequence of text fragments.  No fragment used below occurs inside
\* another, so "needle in text" is: some fragment of the text is the needle.
JNum(v) == [t |-> "num", v |-> v]
JStr(s) == [t |-> "str", s |-> s]
JNull == [t |-> "null"]
JMap(m) == [t |-> "map", m |-> m]

\* the text of line 511 and the text appended on lines 512-514
CostAdjustedMarker == "Cost adjusted:"
Annotation == " (Cost calculation adjusted based on usage patterns)"

Contains(text, needle) == \E i \in 1..Len(text) : text[i] = needle

\* the numerals a string may spell, and the number each spells
Numerals == ("0" :> 0) @@ ("3" :> 3)

\* what one of a field counts in the model's unit of that field
UnitOf(key) ==
    CASE key = "impact_time_minutes" -> 1
      [] key = "monthly_cost_savings" -> Dollars(1)
      [] key = "confidence_score" -> 100

Raised(error) == [ok |-> FALSE, error |-> error]
Value(v) == [ok |-> TRUE, v |-> v]

\* float(x) of a number (already in the unit of its field), of a string, of None
Float(x, key) ==
    CASE x.t = "num" -> Value(x.v)
      [] x.t = "str" ->
            IF Len(x.s) = 1 /\ x.s[1] \in DOMAIN Numerals
            THEN Value(Numerals[x.s[1]] * UnitOf(key))
            ELSE Raised("ValueError")
      [] OTHER -> Raised("TypeError")

\* mapping.get(key, default)
Get(m, key, default) == IF key \in DOMAIN m THEN m[key] ELSE default

---------------------------------------------------------------------------
(* analyzers/ai_analyzer.py: _parse_ai_recommendations *)

\* runs_count * 7 / analysis_days when analysis_days (0 when missing) is > 0, else 0;
\* in thirtieths of a run per week.  The statistics tried keep the division exact.
ParseRunsPerWeek(stats) ==
    IF Get(stats, "analysis_days", 0) > 0
    THEN (Get(stats, "runs_count", 0) * 7 * 30) \div Get(stats, "analysis_days", 30)
    ELSE 0

TextKeys ==
    {"title", "type", "priority", "workflow_file", "job_name", "line_number",
     "description", "implementation", "code_example"}
NumericKeys == {"impact_time_minutes", "monthly_cost_savings", "confidence_score"}
RecKeys == TextKeys \cup NumericKeys

\* the dictionary literal of lines 480-493, before the three float() conversions
Defaulted(m) ==
    [title |-> Get(m, "title", JStr(<<"Unknown Optimization">>)),
     type |-> Get(m, "type", JStr(<<"unknown">>)),
     priority |-> Get(m, "priority", JStr(<<"medium">>)),
     workflow_file |-> Get(m, "workflow_file", Get(m, "workflow", JStr(<<"unknown">>))),
     job_name |-> Get(m, "job_name", JStr(<<"unknown">>)),
     line_number |-> Get(m, "line_number", JStr(<<>>)),
     description |-> Get(m, "description", JStr(<<>>)),
     impact_time_minutes |-> Get(m, "impact_time_minutes", JNum(0)),
     monthly_cost_savings |-> Get(m, "monthly_cost_savings", JNum(0)),
     confidence_score |-> Get(m, "confidence_score", JNum(50)),
     implementation |-> Get(m, "implementation", JStr(<<>>)),
     code_example |-> Get(m, "code_example", JStr(<<>>))]

\* lines 504-514 for a record that is not reasonable: the savings overwritten, the
\* description annotated unless it holds the marker text
Adjust(rec, validation) ==
    LET d == rec.description IN
    IF d.t # "str"
    THEN Raised("TypeError")
    ELSE Value([rec EXCEPT
            !.monthly_cost_savings = validation.expected_savings,
            !.description =
                IF ~ Contains(d.s, CostAdjustedMarker)
                THEN JStr(d.s \o <<Annotation>>) ELSE d])

\* one turn of the loop of lines 478-527 on rec: the processed record and whether
\* it was adjusted, or the exception raised
ProcessRec(rec, runs_per_week) ==
    IF rec.t # "map"
    THEN Raised("AttributeError")
    ELSE
        LET raw == Defaulted(rec.m)
            time == Float(raw.impact_time_minutes, "impact_time_minutes")
            savings == Float(raw.monthly_cost_savings, "monthly_cost_savings")
            confidence == Float(raw.confidence_score, "confidence_score")
        IN  IF ~ time.ok THEN time
            ELSE IF ~ savings.ok THEN savings
            ELSE IF ~ confidence.ok THEN confidence
            ELSE
                LET processed_rec ==
                        [raw EXCEPT !.impact_time_minutes = time.v,
                                    !.monthly_cost_savings = savings.v,
                                    !.confidence_score = confidence.v]
                    validation ==
                        validate_cost_calculation(
                            time.v, savings.v,
                            IF runs_per_week > 0 THEN runs_per_week
                            ELSE RunsPerWeek(DefaultRunsPerWeek),
                            "ubuntu-latest")
                IN  IF ~ validation.is_reasonable
                    THEN LET adjusted == Adjust(processed_rec, validation)
                         IN  IF adjusted.ok
                             THEN [ok |-> TRUE, rec |-> adjusted.v, adjusted |-> TRUE]
                             ELSE adjusted
                    ELSE [ok |-> TRUE, rec |-> processed_rec, adjusted |-> FALSE]

NoStats == [total_validated |-> 0, adjusted |-> 0, passed |-> 0]

\* the loop from the i-th suggestion on, with what was collected so far
RECURSIVE ParseFrom(_, _, _, _, _)
ParseFrom(response, i, runs_per_week, processed_recommendations, validation_stats) ==
    IF i > Len(response)
    THEN [state |-> "returned",
          recommendations |-> processed_recommendations,
          validation_stats |-> validation_stats]
    ELSE
        LET r == ProcessRec(response[i], runs_per_week) IN
        IF ~ r.ok
        THEN [state |-> "raised", error |-> r.error, at |-> i]
        ELSE ParseFrom(response, i + 1, runs_per_week,
                 Append(processed_recommendations, r.rec),
                 [total_validated |-> validation_stats.total_validated + 1,
                  adjusted |-> validation_stats.adjusted + (IF r.adjusted THEN 1 ELSE 0),
                  passed |-> validation_stats.passed + (IF r.adjusted THEN 0 ELSE 1)])

parse_ai_recommendations(response, stats) ==
    ParseFrom(response, 1, ParseRunsPerWeek(stats), <<>>, NoStats)

---------------------------------------------------------------------------
(* The normalizer called on a decoded payload, and on its own output again *)

\* the longest payload tried
MaxRecs == 2
\* how many times the output is handed back as input
MaxPasses == 2

\* usage statistics: 70 runs a week, 500 a week, 0.7 a week, and the ones that make
\* runs_per_week 0 (nothing known, no window given, a window of 0, no runs)
StatsValues ==
    {[runs_count |-> 300, analysis_days |-> 30],
     [runs_count |-> 500, analysis_days |-> 7],
     [runs_count |-> 3, analysis_days |-> 30],
     [runs_count |-> 300],
     [runs_count |-> 10, analysis_days |-> 0],
     [runs_count |-> 0, analysis_days |-> 30],
     [repository |-> "absent"]}

PlainText == <<"Missing npm dependency caching causing repeated installs">>

\* the example suggestion of the prompt (lines 162-175)
Example(time, savings, description) ==
    [title |-> JStr(<<"Add Node.js Dependency Caching">>),
     type |-> JStr(<<"caching">>),
     priority |-> JStr(<<"high">>),
     workflow_file |-> JStr(<<".github/workflows/ci.yml">>),
     job_name |-> JStr(<<"build">>),
     line_number |-> JStr(<<"47">>),
     description |-> description,
     impact_time_minutes |-> time,
     monthly_cost_savings |-> savings,
     confidence_score |-> JNum(90),
     implementation |-> JStr(<<"Add actions/cache@v3 before npm install">>),
     code_example |-> JStr(<<"- uses: actions/cache@v3">>)]

Without(m, keys) == [k \in DOMAIN m \ keys |-> m[k]]

\* well-formed suggestions: claims far from, and close to, the expected value, time
\* at and around the limits, claims above 1000 USD
NumericSuggestions ==
    {JMap(Example(JNum(tc[1]), JNum(tc[2]), JStr(PlainText))) :
        tc \in {<<3, Cents(3119)>>, <<3, Cents(727)>>, <<3, Cents(520)>>,
                <<60, 0>>, <<60, Dollars(1001)>>, <<61, 0>>, <<0, 0>>,
                <<-1, Dollars(-1)>>}}

\* the scenario's suggestion with other descriptions
DescribedSuggestions ==
    {JMap(Example(JNum(3), JNum(Cents(3119)), d)) :
        d \in {JStr(<<CostAdjustedMarker, " was 40.00">>),
               JStr(PlainText \o <<Annotation>>),
               JNull}}
    \cup {JMap(Without(Example(JNum(3), JNum(Cents(3119)), JNull), {"description"}))}

\* suggestions with fields missing or of another type, and elements that are no mapping
LooseSuggestions ==
    {JMap(<<>>),
     JMap([workflow |-> JStr(<<"ci.yml">>), title |-> JNull]),
     JMap(Example(JStr(<<"3">>), JStr(<<"0">>), JStr(PlainText))),
     JMap(Example(JNull, JNum(0), JStr(PlainText))),
     JMap(Example(JNum(3), JStr(<<"about five dollars">>), JStr(PlainText))),
     JMap([Example(JNum(3), JNum(Cents(520)), JNull)
              EXCEPT !.confidence_score = JStr(<<"high">>)]),
     JStr(<<"no optimizations found">>)}

RawSuggestions == NumericSuggestions \cup DescribedSuggestions \cup LooseSuggestions

RECURSIVE SeqsUpTo(_, _)
SeqsUpTo(S, n) ==
    IF n = 0 THEN {<<>>}
    ELSE LET shorter == SeqsUpTo(S, n - 1)
         IN  shorter \cup {Append(q, x) : q \in {p \in shorter : Len(p) = n - 1}, x \in S}

InitNorm ==
    /\ InitPromptIdle
    /\ InitScanIdle
    /\ InitCostIdle
    /\ InitClientIdle
    /\ InitRepairIdle
    /\ InitDocIdle
    /\ repository_stats \in StatsValues
    /\ ai_response \in SeqsUpTo(RawSuggestions, MaxRecs)
    /\ parsed = [state |-> "idle"]
    /\ passes = 0

\* recommendations = self._parse_ai_recommendations(ai_response, repository_stats, ...)
Parse ==
    /\ parsed.state = "idle"
    /\ parsed' = parse_ai_recommendations(ai_response, repository_stats)
    /\ UNCHANGED <<repository_stats, ai_response, passes>>
    /\ UNCHANGED <<costVars, clientVars, repairVars, docVars, promptVars, scanVars>>

\* an emitted record read as a suggestion: its three numbers are JSON numbers
AsSuggestion(rec) ==
    JMap([k \in DOMAIN rec |-> IF k \in NumericKeys THEN JNum(rec[k]) ELSE rec[k]])

\* the output of a call is handed to a further call, with the same statistics
FeedBack ==
    /\ parsed.state = "returned"
    /\ passes < MaxPasses
    /\ ai_response' = [i \in 1..Len(parsed.recommendations) |->
                          AsSuggestion(parsed.recommendations[i])]
    /\ parsed' = [state |-> "idle"]
    /\ passes' = passes + 1
    /\ UNCHANGED repository_stats
    /\ UNCHANGED <<costVars, clientVars, repairVars, docVars, promptVars, scanVars>>

NextNorm == Parse \/ FeedBack

SpecNorm == InitNorm /\ [][NextNorm]_vars

Returned == parsed.state = "returned"
Emitted == IF Returned THEN parsed.recommendations ELSE <<>>

\* the runs_per_week argument _parse_ai_recommendations hands to the validator
ValidatorRuns ==
    IF ParseRunsPerWeek(repository_stats) > 0
    THEN ParseRunsPerWeek(repository_stats) ELSE RunsPerWeek(50)

Revalidated(rec) ==
    validate_cost_calculation(rec.impact_time_minutes, rec.monthly_cost_savings,
                              ValidatorRuns, "ubuntu-latest")

(* C1: every emitted Recommendation, validated again with its own
   impact_time_minutes, its emitted monthly_cost_savings and the same runs_per_week,
   is reported reasonable. *)
C1_SelfConsistent ==
    \A i \in 1..Len(Emitted) : Revalidated(Emitted[i]).is_reasonable

Count(text, needle) == Cardinality({i \in 1..Len(text) : text[i] = needle})

(* C2: however often the output is fed back in, no emitted description holds the
   annotation more than once. *)
C2_AnnotatedOnce ==
    \A i \in 1..Len(Emitted) :
        Emitted[i].description.t = "str"
            => Count(Emitted[i].description.s, Annotation) <= 1

Called == parsed.state # "idle"

\* a suggestion the validator can be run on: a mapping whose time and savings are
\* numbers
Validatable(x) ==
    /\ x.t = "map"
    /\ \A k \in NumericKeys : k \in DOMAIN x.m => x.m[k].t = "num"
    /\ {"impact_time_minutes", "monthly_cost_savings", "description"} \subseteq DOMAIN x.m
    /\ x.m.description.t = "str"

RawValidation(x) ==
    validate_cost_calculation(x.m.impact_time_minutes.v, x.m.monthly_cost_savings.v,
                              ValidatorRuns, "ubuntu-latest")

(* C9: of a payload of suggestions with numeric time and savings and a text
   description, every suggestion is emitted: one whose validation is not reasonable
   with the expected value as its monthly_cost_savings and the annotation appended
   to its description, one whose validation is reasonable with its claimed
   monthly_cost_savings and its description unchanged. *)
C9_LocalRecovery ==
    (Called /\ \A i \in 1..Len(ai_response) : Validatable(ai_response[i]))
        => /\ Returned
           /\ Len(Emitted) = Len(ai_response)
           /\ \A i \in 1..Len(ai_response) :
                LET x == ai_response[i]
                    v == RawValidation(x)
                    out == Emitted[i]
                IN  IF ~ v.is_reasonable
                    THEN /\ out.monthly_cost_savings = v.expected_savings
                         /\ out.description = JStr(x.m.description.s \o <<Annotation>>)
                    ELSE /\ out.monthly_cost_savings = x.m.monthly_cost_savings.v
                         /\ out.description = x.m.description

\* the defaults of the claim
DefaultOf(key) ==
    CASE key = "title" -> JStr(<<"Unknown Optimization">>)
      [] key = "type" -> JStr(<<"unknown">>)
      [] key = "priority" -> JStr(<<"medium">>)
      [] key \in {"workflow_file", "job_name"} -> JStr(<<"unknown">>)
      [] key \in {"impact_time_minutes", "monthly_cost_savings"} -> 0
      [] key = "confidence_score" -> 50
      [] OTHER -> JStr(<<>>)

\* a field a suggestion carries and that can be used: a text, or a number
Usable(x, key) ==
    /\ x.t = "map"
    /\ key \in DOMAIN x.m
    /\ x.m[key].t = (IF key \in NumericKeys THEN "num" ELSE "str")

(* C10: whatever the suggestions lack or carry with a wrong type, the call completes
   without error and emits one fully populated record per suggestion, in input
   order, with the default in place of every absent or unusable field. *)
C10_TolerantDefaults ==
    Called
        => /\ Returned
           /\ Len(Emitted) = Len(ai_response)
           /\ \A i \in 1..Len(ai_response) :
                /\ DOMAIN Emitted[i] = RecKeys
                /\ \A k \in RecKeys \ {"monthly_cost_savings", "description"} :
                     Emitted[i][k] =
                        IF Usable(ai_response[i], k)
                        THEN (IF k \in NumericKeys THEN ai_response[i].m[k].v
                              ELSE ai_response[i].m[k])
                        ELSE DefaultOf(k)

---------------------------------------------------------------------------
(* analyzers/ai_analyzer.py: _extract_json_from_response *)

\* A response text is a sequence of fragments: the fence of three backquotes, the
\* json tag, a line break, a blank, the two brackets, an object and other prose.
\* the fence stands for the three backquotes that open or close a block
Fence == "fence"
Tag == "json"
NL == "\n"
Blank == " "
Open == "["
Close == "]"
Object == "{}"
Prose == "x"

\* what \s of the patterns and str.strip() take
IsSpace(c) == c \in {NL, Blank}

RECURSIVE LStrip(_)
LStrip(s) == IF s # <<>> /\ IsSpace(Head(s)) THEN LStrip(Tail(s)) ELSE s

RECURSIVE RStrip(_)
RStrip(s) ==
    IF s # <<>> /\ IsSpace(s[Len(s)]) THEN RStrip(SubSeq(s, 1, Len(s) - 1)) ELSE s

\* str.strip()
Strip(s) == RStrip(LStrip(s))

Positions(s, c) == {i \in 1..Len(s) : s[i] = c}
Min(S) == CHOOSE x \in S : \A y \in S : x <= y
Max(S) == CHOOSE x \in S : \A y \in S : x >= y

\* re.findall(json_pattern, content, DOTALL | IGNORECASE), where json_pattern is
\* fence (?:json)? \s* \n? (.*?) \n? fence: the
\* group of the first match, or none.  The first match starts at the first fence
\* that has a fence after it; the tag and the white space after the fence are taken
\* greedily, the group lazily up to the next fence, less one line break before it.
FirstFenced(s) ==
    LET fences == Positions(s, Fence) IN
    IF Cardinality(fences) < 2
    THEN [found |-> FALSE]
    ELSE
        LET open == Min(fences)
            close == Min(fences \ {open})
            afterTag == IF s[open + 1] = Tag THEN open + 2 ELSE open + 1
            body == LStrip(SubSeq(s, afterTag, close - 1))
            group == IF body # <<>> /\ body[Len(body)] = NL
                     THEN SubSeq(body, 1, Len(body) - 1) ELSE body
        IN  [found |-> TRUE, group |-> group]

\* re.findall(r"(\[.*\])", content, DOTALL): the group of the first match, or none.
\* The match starts at the first "[" and, being greedy, ends at the last "]".
FirstArray(s) ==
    LET opens == Positions(s, Open)
        closes == Positions(s, Close)
    IN  IF opens = {} \/ closes = {} \/ Max(closes) < Min(opens)
        THEN [found |-> FALSE]
        ELSE [found |-> TRUE, group |-> SubSeq(s, Min(opens), Max(closes))]

\* a plausible slip: the array pattern tried before the fenced block
extract_array_first(s) ==
    IF FirstArray(s).found THEN Strip(FirstArray(s).group)
    ELSE IF FirstFenced(s).found THEN Strip(FirstFenced(s).group)
    ELSE Strip(s)

extract_json_from_response(s) ==
    IF FirstFenced(s).found THEN Strip(FirstFenced(s).group)
    ELSE IF FirstArray(s).found THEN Strip(FirstArray(s).group)
    ELSE Strip(s)

---------------------------------------------------------------------------
(* The repair called on a response text *)

\* the longest response text tried, in fragments
MaxFragments == 5

Fragments == {Fence, Tag, NL, Blank, Open, Close, Prose}

InitRepair ==
    /\ InitPromptIdle
    /\ InitScanIdle
    /\ InitCostIdle
    /\ InitNormalizerIdle
    /\ InitClientIdle
    /\ InitDocIdle
    /\ content \in SeqsUpTo(Fragments, MaxFragments)
    /\ extracted = [returned |-> FALSE]

\* json_content = self._extract_json_from_response(content)
Extract ==
    /\ ~ extracted.returned
    /\ extracted' = [returned |-> TRUE,
                     json_content |-> extract_json_from_response(content)]
    /\ UNCHANGED content
    /\ UNCHANGED <<costVars, normVars, clientVars, docVars, promptVars, scanVars>>

NextRepair == Extract

SpecRepair == InitRepair /\ [][NextRepair]_vars

\* the text has a complete fenced block: an opening and a closing fence
HasFencedBlock == Cardinality(Positions(content, Fence)) >= 2

\* the text between the first two fences, after the json tag if there is one
InnerText ==
    LET fences == Positions(content, Fence)
        open == Min(fences)
        close == Min(fences \ {open})
    IN  SubSeq(content, IF content[open + 1] = Tag THEN open + 2 ELSE open + 1,
               close - 1)

\* the inner text less the line break that ends the opening line and the one that
\* precedes the closing fence
InnerLines ==
    LET a == IF InnerText # <<>> /\ Head(InnerText) = NL THEN Tail(InnerText)
             ELSE InnerText
    IN  IF a # <<>> /\ a[Len(a)] = NL THEN SubSeq(a, 1, Len(a) - 1) ELSE a

(* C16 as stated: with a complete fenced block in the text, the result is the exact
   inner text of the first fenced block. *)
C16_ExactInnerText ==
    (extracted.returned /\ HasFencedBlock) => extracted.json_content = InnerLines

(* C16 as amended: with a complete fenced block in the text, the result is the inner
   text of the first fenced block with the white space at its two ends removed,
   whatever brackets or further fences stand before or after the block. *)
C16_TrimmedInnerText ==
    (extracted.returned /\ HasFencedBlock)
        => extracted.json_content = Strip(InnerText)

C16_Witness ==
    /\ extracted.returned
    /\ content = <<Open, Close, Fence, Prose, Fence>>
    /\ extracted.json_content = <<Prose>>

\* the index of the "]" that closes the "[" at index i, or 0
RECURSIVE MatchFrom(_, _, _)
MatchFrom(s, j, depth) ==
    IF j > Len(s) THEN 0
    ELSE IF s[j] = Open THEN MatchFrom(s, j + 1, depth + 1)
    ELSE IF s[j] = Close
         THEN (IF depth = 1 THEN j ELSE MatchFrom(s, j + 1, depth - 1))
    ELSE MatchFrom(s, j + 1, depth)

\* the text holds a "[" with a "]" somewhere after it
HasBrackets ==
    \E i \in Positions(content, Open) : \E j \in Positions(content, Close) : i < j

\* the index of the "]" that matches the first "[" of the text, or 0
FirstMatch ==
    LET first == Min(Positions(content, Open))
    IN  MatchFrom(content, first + 1, 1)

(* C17: without a fenced block the result is the first top-level bracketed span, from
   the first "[" to its matching "]", and not the text up to the last "]"; with
   neither a fenced block nor a bracketed span it is the trimmed text. *)
C17_FirstSpan ==
    (extracted.returned /\ ~ HasFencedBlock)
        => IF ~ HasBrackets
           THEN extracted.json_content = Strip(content)
           ELSE FirstMatch > 0
                    => extracted.json_content =
                          SubSeq(content, Min(Positions(content, Open)), FirstMatch)

---------------------------------------------------------------------------
(* analyzers/ai_analyzer.py: json.loads of the repaired text *)

JList(l) == [t |-> "list", l |-> l]

\* a fragment that is a whole JSON object, with the comma that follows it in a list:
\* the empty object, and the example suggestion of the prompt
Suggestion == "{suggestion}"
ObjectOf(c) ==
    IF c = Suggestion
    THEN JMap(Example(JNum(3), JNum(Cents(727)), JStr(PlainText)))
    ELSE JMap(<<>>)

\* the decoder from the i-th fragment on: a value and the index after it, or an error
RECURSIVE ParseValue(_, _)
RECURSIVE ParseElements(_, _, _)
ParseValue(s, i) ==
    IF i > Len(s) THEN Raised("JSONDecodeError")
    ELSE IF s[i] \in {Object, Suggestion} THEN [ok |-> TRUE, v |-> ObjectOf(s[i]), next |-> i + 1]
    ELSE IF s[i] = Open THEN ParseElements(s, i + 1, <<>>)
    ELSE Raised("JSONDecodeError")

ParseElements(s, i, elements) ==
    IF i > Len(s) THEN Raised("JSONDecodeError")
    ELSE IF s[i] = Close THEN [ok |-> TRUE, v |-> JList(elements), next |-> i + 1]
    ELSE LET element == ParseValue(s, i)
         IN  IF element.ok THEN ParseElements(s, element.next, Append(elements, element.v))
             ELSE element

NotSpace(c) == ~ IsSpace(c)

\* json.loads(json_content): white space between the values is skipped, and text
\* after the value is an error
JsonLoads(json_content) ==
    LET s == SelectSeq(json_content, NotSpace)
        value == ParseValue(s, 1)
    IN  IF value.ok /\ value.next = Len(s) + 1 THEN Value(value.v)
        ELSE Raised("JSONDecodeError")

---------------------------------------------------------------------------
(* analyzers/ai_analyzer.py: _call_anthropic_api, _call_ai_api, analyze_workflows *)

max_retries == 3
base_delay == 1

\* a plausible slip: the text decoded without the guard for an empty text
DecodeUnguarded(stripped) ==
    LET recommendations == JsonLoads(extract_json_from_response(stripped))
    IN  IF ~ recommendations.ok THEN recommendations
        ELSE IF recommendations.v.t # "list" THEN Value(<<recommendations.v>>)
        ELSE Value(recommendations.v.l)

\* lines 229-242, on the stripped text of the first content block
Decode(stripped) ==
    IF stripped = <<>> THEN Value(<<>>)
    ELSE
        LET recommendations == JsonLoads(extract_json_from_response(stripped))
        IN  IF ~ recommendations.ok THEN recommendations
            ELSE IF recommendations.v.t # "list" THEN Value(<<recommendations.v>>)
            ELSE Value(recommendations.v.l)

\* the body of the try statement (lines 205-242) for what messages.create did: it
\* raised, or it returned a response with a list of content blocks
TryBody(outcome) ==
    IF outcome.kind = "raise" THEN Raised(outcome.error)
    ELSE IF outcome.content = <<>> THEN Raised("IndexError")
    ELSE
        LET content_block == outcome.content[1]
        IN  IF "text" \notin DOMAIN content_block THEN Value(<<>>)
            ELSE Decode(Strip(content_block.text))

\* a plausible slip: the parse error handled like every other error
RetriedAlways(error) == TRUE

\* the except clauses (lines 244-247): a JSON parse error is raised again at once
Retried(error) == error # "JSONDecodeError"

\* a plausible slip: the last attempt taken to be the one after the loop's last
LastAttemptLate(attempt) == attempt = max_retries

\* line 248
LastAttempt(attempt) == attempt = max_retries - 1

\* a plausible slip: the exponent one too high
DelayDoubled(attempt) == base_delay * (2 ^ (attempt + 1))

\* line 252
Delay(attempt) == base_delay * (2 ^ attempt)

\* _call_anthropic_api after one request: returned, raised, or about to sleep
AfterRequest(attempt, outcome) ==
    LET result == TryBody(outcome)
    IN  IF result.ok THEN [pc |-> "returned", recommendations |-> result.v]
        ELSE IF ~ Retried(result.error) THEN [pc |-> "raised", error |-> result.error]
        ELSE IF LastAttempt(attempt) THEN [pc |-> "raised", error |-> result.error]
        ELSE [pc |-> "backoff", attempt |-> attempt, delay |-> Delay(attempt)]

\* _call_ai_api (lines 184-197) and the rest of analyze_workflows (lines 62-68) once
\* _call_anthropic_api has returned or raised
AfterCall(result, stats) ==
    IF result.pc = "raised"
    THEN [pc |-> "raised", error |-> "RuntimeError", cause |-> result.error]
    ELSE
        LET p == parse_ai_recommendations(result.recommendations, stats)
        IN  IF p.state = "returned"
            THEN [pc |-> "returned", recommendations |-> p.recommendations]
            ELSE [pc |-> "raised", error |-> p.error, cause |-> p.error]

---------------------------------------------------------------------------
(* One analysis: the prompt, the requests with their backoff, the normalizer *)

\* usage statistics: 70 runs a week, nothing known, and a window of 0 days
ClientStats ==
    {[runs_count |-> 300, analysis_days |-> 30],
     [repository |-> "absent"],
     [runs_count |-> 10, analysis_days |-> 0]}

\* the text of the first content block: empty, white space only, an empty array bare
\* and after prose, a tagged fenced array, two suggestions, one suggestion outside a
\* list, an array of an empty object, an array in an array, prose only, an array cut
\* short
ResponseTexts ==
    {<<>>,
     <<Blank, NL>>,
     <<Open, Close>>,
     <<Prose, Blank, Open, Close, NL>>,
     <<Fence, Tag, NL, Open, Suggestion, Close, NL, Fence>>,
     <<Open, Suggestion, Suggestion, Close>>,
     <<Suggestion>>,
     <<Open, Object, Close>>,
     <<Open, Open, Close, Close>>,
     <<Prose>>,
     <<Open, Suggestion>>}

\* what response.content can be: no block, a block without text, a block with text
Contents ==
    {<<>>, <<[type |-> "tool_use"]>>}
        \cup {<<[type |-> "text", text |-> t]>> : t \in ResponseTexts}

\* what client.messages.create can do
Outcomes ==
    {[kind |-> "raise", error |-> e] : e \in {"APIConnectionError", "JSONDecodeError"}}
        \cup {[kind |-> "response", content |-> c] : c \in Contents}

InitClient ==
    /\ InitPromptIdle
    /\ InitScanIdle
    /\ InitCostIdle
    /\ InitRepairIdle
    /\ InitDocIdle
    /\ repository_stats \in ClientStats
    /\ ai_response = <<>>
    /\ parsed = [state |-> "idle"]
    /\ passes = 0
    /\ ai_provider \in {"anthropic", "openai"}
    /\ api = [pc |-> "idle"]
    /\ analysis = [pc |-> "idle"]
    /\ log = <<>>

\* analyze_workflows up to the first request: the prompt is built (the guidance is
\* resolved or not, then runs_count * 7 is divided by analysis_days, 30 by default),
\* and _call_ai_api checks the provider
Analyze ==
    /\ analysis.pc = "idle"
    /\ \E guidance \in {"resolved", "ValueError"} :
        IF guidance = "ValueError"
        THEN /\ analysis' = [pc |-> "raised", error |-> "ValueError", cause |-> "ValueError"]
             /\ api' = api
        ELSE IF Get(repository_stats, "analysis_days", 30) = 0
        THEN /\ analysis' = [pc |-> "raised", error |-> "ZeroDivisionError",
                             cause |-> "ZeroDivisionError"]
             /\ api' = api
        ELSE IF ai_provider # "anthropic"
        THEN /\ analysis' = [pc |-> "raised", error |-> "RuntimeError", cause |-> "ValueError"]
             /\ api' = api
        ELSE /\ analysis' = [pc |-> "calling"]
             /\ api' = [pc |-> "attempt", attempt |-> 0]
    /\ UNCHANGED <<ai_provider, log>>
    /\ UNCHANGED <<costVars, normVars, repairVars, docVars, promptVars, scanVars>>

\* one pass of the loop body up to the sleep: the request is sent and its outcome
\* handled; when the call ends here, so does analyze_workflows
Request ==
    /\ api.pc = "attempt"
    /\ \E outcome \in Outcomes :
        LET after == AfterRequest(api.attempt, outcome)
        IN  /\ log' = Append(log, [e |-> "request", attempt |-> api.attempt,
                                   outcome |-> outcome])
            /\ api' = after
            /\ analysis' = IF after.pc = "backoff" THEN analysis
                           ELSE AfterCall(after, repository_stats)
    /\ UNCHANGED ai_provider
    /\ UNCHANGED <<costVars, normVars, repairVars, docVars, promptVars, scanVars>>

\* time.sleep(delay), then the next pass of the loop, or line 259 after the last
Sleep ==
    /\ api.pc = "backoff"
    /\ log' = Append(log, [e |-> "sleep", attempt |-> api.attempt, delay |-> api.delay])
    /\ IF api.attempt + 1 < max_retries
       THEN /\ api' = [pc |-> "attempt", attempt |-> api.attempt + 1]
            /\ analysis' = analysis
       ELSE /\ api' = [pc |-> "returned", recommendations |-> <<>>]
            /\ analysis' = AfterCall(api', repository_stats)
    /\ UNCHANGED ai_provider
    /\ UNCHANGED <<costVars, normVars, repairVars, docVars, promptVars, scanVars>>

NextClient == Analyze \/ Request \/ Sleep

SpecClient == InitClient /\ [][NextClient]_vars

\* the interpreter runs the one thread of the call until it returns or raises
SpecClientLive == SpecClient /\ WF_vars(NextClient)

RequestAt == {i \in 1..Len(log) : log[i].e = "request"}
SleepAt == {i \in 1..Len(log) : log[i].e = "sleep"}

\* how many requests were sent up to the i-th event
RequestsUpTo(i) == Cardinality({j \in RequestAt : j <= i})

Succeeded(i) == TryBody(log[i].outcome).ok

ApiDone == api.pc \in {"returned", "raised"}

C11_Safety ==
    /\ Cardinality(RequestAt) <= 3
    /\ \A i \in RequestAt : Succeeded(i) => \A j \in RequestAt : j <= i
    /\ \A i \in RequestAt :
          (RequestsUpTo(i) = 3 /\ ~ Succeeded(i))
              => /\ api.pc = "raised"
                 /\ api.error = TryBody(log[i].outcome).error
                 /\ analysis.pc = "raised"
                 /\ analysis.cause = api.error

(* C11: whatever the service does, _call_anthropic_api sends at most 3 requests and
   then ends, returning or raising; it sends none after a request that succeeded,
   and the failure of the third request reaches the caller. *)
C11_BoundedRetry == [] C11_Safety /\ ((api.pc = "attempt") ~> ApiDone)

C11_Witness ==
    /\ Cardinality(RequestAt) = 3
    /\ api.pc = "raised"
    /\ api.error = "IndexError"
    /\ analysis.pc = "raised"

\* the delays slept so far, added up
RECURSIVE TotalDelay(_)
TotalDelay(events) ==
    IF events = <<>> THEN 0
    ELSE (IF Head(events).e = "sleep" THEN Head(events).delay ELSE 0)
             + TotalDelay(Tail(events))

(* C12: the delay slept after the k-th failed attempt (k = 1, 2) is 2^(k-1) and comes
   before attempt k+1; nothing is slept after the third failed attempt or after a
   success, so the delays of one call add up to at most 3. *)
C12_BackoffSchedule ==
    /\ \A i \in SleepAt :
          /\ RequestsUpTo(i) \in {1, 2}
          /\ log[i].delay = 2 ^ (RequestsUpTo(i) - 1)
          /\ log[i - 1].e = "request" /\ ~ Succeeded(i - 1)
    /\ \A i \in RequestAt : i > 1 => log[i - 1].e = "sleep"
    /\ ApiDone => log[Len(log)].e = "request"
    /\ TotalDelay(log) <= 3

C12_Witness ==
    /\ Cardinality(SleepAt) = 2
    /\ Cardinality(RequestAt) = 3
    /\ TotalDelay(log) = 3
    /\ ApiDone

ParseFailed(i) == TryBody(log[i].outcome) = Raised("JSONDecodeError")

(* C13: when the response of attempt k cannot be parsed, _call_anthropic_api raises
   on that attempt: no delay is slept and no request sent after it. *)
C13_ParseFailureNotRetried ==
    \A i \in RequestAt :
        ParseFailed(i)
            => /\ i = Len(log)
               /\ api = [pc |-> "raised", error |-> "JSONDecodeError"]
               /\ analysis.pc = "raised"

C13_Witness ==
    /\ Cardinality(RequestAt) = 2
    /\ ParseFailed(Len(log))
    /\ log[Len(log)].outcome.kind = "response"
    /\ api.pc = "raised"

\* the i-th event is a request answered with a first block of empty or blank text
EmptyText(i) ==
    /\ log[i].outcome.kind = "response"
    /\ log[i].outcome.content # <<>>
    /\ "text" \in DOMAIN log[i].outcome.content[1]
    /\ Strip(log[i].outcome.content[1].text) = <<>>

(* C14: a successful response with empty or blank text is no error: on that attempt
   _call_anthropic_api returns an empty list without retrying,
   _parse_ai_recommendations returns an empty list, and analyze_workflows returns an
   empty list without raising. *)
C14_EmptyResponse ==
    \A i \in RequestAt :
        EmptyText(i)
            => /\ i = Len(log)
               /\ api = [pc |-> "returned", recommendations |-> <<>>]
               /\ parse_ai_recommendations(api.recommendations, repository_stats)
                     = [state |-> "returned", recommendations |-> <<>>,
                        validation_stats |-> NoStats]
               /\ analysis = [pc |-> "returned", recommendations |-> <<>>]

C14_Witness ==
    /\ log # <<>>
    /\ EmptyText(Len(log))
    /\ log[Len(log)].outcome.content[1].text = <<Blank, NL>>
    /\ analysis = [pc |-> "returned", recommendations |-> <<>>]

\* the i-th event is a request answered with text whose repaired payload is the empty
\* JSON array
EmptyArray(i) ==
    /\ log[i].outcome.kind = "response"
    /\ log[i].outcome.content # <<>>
    /\ "text" \in DOMAIN log[i].outcome.content[1]
    /\ JsonLoads(extract_json_from_response(Strip(log[i].outcome.content[1].text)))
          = Value(JList(<<>>))

(* C15: analyze_workflows returns an empty list without raising only when the service
   answered with empty text or with a payload that is an empty JSON array; a first
   content block without text, an unparsable payload and a transport failure end in
   an error. *)
C15_NoSilentEmpty ==
    (analysis.pc = "returned" /\ analysis.recommendations = <<>>)
        => /\ log # <<>>
           /\ EmptyText(Len(log)) \/ EmptyArray(Len(log))

---------------------------------------------------------------------------
(* analyzers/ai_analyzer.py: _get_optimization_patterns_from_docs and its cache *)

Probe(source, ok) == [source |-> source, ok |-> ok]

\* _try_fetch_remote_documentation: the probes made and the answer.  A HEAD that
\* raises ends the probe; any other status than 200 is followed by a GET.
TryFetchRemoteDocumentation(src) ==
    IF src.head = "200" THEN [made |-> <<Probe("HEAD", TRUE)>>, ok |-> TRUE]
    ELSE IF src.head = "error" THEN [made |-> <<Probe("HEAD", FALSE)>>, ok |-> FALSE]
    ELSE [made |-> <<Probe("HEAD", FALSE), Probe("GET", src.get = "200")>>,
          ok |-> src.get = "200"]

Document(source, is_debug) == [kind |-> "document", source |-> source, debug |-> is_debug]
NoDocument == [kind |-> "ValueError"]

\* a plausible slip: the development tree read before the packaged copy
LoadDevelopmentFirst(force_local, src) ==
    IF force_local
    THEN [made |-> <<Probe("development", src.development)>>,
          result |-> IF src.development THEN Document("development", TRUE)
                     ELSE NoDocument]
    ELSE IF src.development
    THEN [made |-> <<Probe("development", TRUE)>>,
          result |-> Document("development", FALSE)]
    ELSE [made |-> <<Probe("development", FALSE), Probe("packaged", src.packaged)>>,
          result |-> IF src.packaged THEN Document("packaged", FALSE) ELSE NoDocument]

\* _load_documentation_content and the wrapping of what it returns (lines 273-278,
\* 285-287): the loads made and the document, or the ValueError
LoadDocumentationContent(force_local, src) ==
    IF force_local
    THEN [made |-> <<Probe("development", src.development)>>,
          result |-> IF src.development THEN Document("development", TRUE)
                     ELSE NoDocument]
    ELSE IF src.packaged
    THEN [made |-> <<Probe("packaged", TRUE)>>, result |-> Document("packaged", FALSE)]
    ELSE [made |-> <<Probe("packaged", FALSE), Probe("development", src.development)>>,
          result |-> IF src.development THEN Document("development", FALSE)
                     ELSE NoDocument]

\* lru_cache(maxsize=1) keyed by the analyzer the method is called on: the entry for
\* the key, and the cache after a result was computed for it
Cached(c, key) == {i \in 1..Len(c) : c[i].key = key}
Stored(c, key, value) ==
    IF Cached(c, key) # {} THEN c ELSE <<[key |-> key, value |-> value]>>

---------------------------------------------------------------------------
(* Prompt builds of one process: analyzers, callers and the shared cache *)

\* how many calls of the cached method the process makes
MaxCalls == 3

Analyzers == {"a1", "a2"}
Threads == {"t1", "t2"}

Statuses == {"200", "404", "error"}

InitDocs ==
    /\ InitPromptIdle
    /\ InitScanIdle
    /\ InitCostIdle
    /\ InitNormalizerIdle
    /\ InitClientIdle
    /\ InitRepairIdle
    /\ local_docs \in [Analyzers -> BOOLEAN]
    /\ sources \in [head : Statuses, get : Statuses, packaged : BOOLEAN,
                    development : BOOLEAN]
    /\ cache = <<>>
    /\ threads = [t \in Threads |->
                    [pc |-> "idle", analyzer |-> "none", n |-> 0, result |-> [kind |-> "none"]]]
    /\ probes = <<>>

RECURSIVE CallsOf(_)
CallsOf(T) ==
    IF T = {} THEN 0
    ELSE LET t == CHOOSE x \in T : TRUE IN threads[t].n + CallsOf(T \ {t})

\* what the resolution in thread t adds to the probes made so far
Made(t, made) ==
    probes \o [i \in 1..Len(made) |->
                  [thread |-> t, n |-> threads[t].n, analyzer |-> threads[t].analyzer,
                   source |-> made[i].source, ok |-> made[i].ok]]

\* the method is called on analyzer a in thread t: the wrapper looks the key up and
\* returns the cached value, or goes on to the method
CallCached(t, a) ==
    /\ threads[t].pc = "idle"
    /\ CallsOf(Threads) < MaxCalls
    /\ threads' = [threads EXCEPT ![t] =
          IF Cached(cache, a) # {}
          THEN [pc |-> "idle", analyzer |-> a, n |-> @.n + 1,
                result |-> cache[CHOOSE i \in Cached(cache, a) : TRUE].value]
          ELSE [pc |-> IF local_docs[a] THEN "local" ELSE "remote", analyzer |-> a,
                n |-> @.n + 1, result |-> [kind |-> "none"]]]
    /\ UNCHANGED <<local_docs, sources, cache, probes>>
    /\ UNCHANGED <<costVars, normVars, clientVars, repairVars, promptVars, scanVars>>

\* lines 281-282: the remote probe; on success the reference is returned and cached
Remote(t) ==
    /\ threads[t].pc = "remote"
    /\ LET fetch == TryFetchRemoteDocumentation(sources)
       IN  /\ probes' = Made(t, fetch.made)
           /\ IF fetch.ok
              THEN /\ threads' = [threads EXCEPT ![t].pc = "idle",
                                     ![t].result = Document("remote", FALSE)]
                   /\ cache' = Stored(cache, threads[t].analyzer, Document("remote", FALSE))
              ELSE /\ threads' = [threads EXCEPT ![t].pc = "local"]
                   /\ cache' = cache
    /\ UNCHANGED <<local_docs, sources>>
    /\ UNCHANGED <<costVars, normVars, clientVars, repairVars, promptVars, scanVars>>

\* lines 273-278 and 285-287: the local loads; a document is returned and cached,
\* a ValueError is raised and not cached
Local(t) ==
    /\ threads[t].pc = "local"
    /\ LET load == LoadDocumentationContent(local_docs[threads[t].analyzer], sources)
       IN  /\ probes' = Made(t, load.made)
           /\ threads' = [threads EXCEPT ![t].pc = "idle", ![t].result = load.result]
           /\ cache' = IF load.result.kind = "document"
                       THEN Stored(cache, threads[t].analyzer, load.result)
                       ELSE cache
    /\ UNCHANGED <<local_docs, sources>>
    /\ UNCHANGED <<costVars, normVars, clientVars, repairVars, promptVars, scanVars>>

NextDocs ==
    \/ \E t \in Threads, a \in Analyzers : CallCached(t, a)
    \/ \E t \in Threads : Remote(t)
    \/ \E t \in Threads : Local(t)

SpecDocs == InitDocs /\ [][NextDocs]_vars

\* the j-th probe belongs to the same resolution as the i-th
SameResolution(i, j) ==
    probes[i].thread = probes[j].thread /\ probes[i].n = probes[j].n

Before(i) == 1..(i - 1)

\* every probe of the resolution of call n in thread t failed, and each of the three
\* sources was tried
AllFailed(t, n) ==
    LET mine == {i \in 1..Len(probes) : probes[i].thread = t /\ probes[i].n = n}
    IN  /\ \A i \in mine : ~ probes[i].ok
        /\ \E i \in mine : probes[i].source = "HEAD"
        /\ \E i \in mine : probes[i].source = "packaged"
        /\ \E i \in mine : probes[i].source = "development"

(* C18: outside debug mode the packaged copy is loaded only after the remote probe
   has failed (a HEAD that is not 200 followed by a failing GET included), the
   development copy only after the packaged copy has failed, the first source that
   succeeds ends the resolution, and the resolution raises exactly when all three
   sources have failed. *)
C18_FallbackOrder ==
    /\ \A i \in 1..Len(probes) :
          ~ local_docs[probes[i].analyzer]
              => /\ probes[i].source = "packaged"
                    => /\ probes[i].ok = sources.packaged
                       /\ \E j \in Before(i) :
                             SameResolution(i, j) /\ probes[j].source = "HEAD"
                       /\ \A j \in Before(i) :
                             (SameResolution(i, j) /\ probes[j].source \in {"HEAD", "GET"})
                                 => ~ probes[j].ok
                 /\ probes[i].source = "development"
                    => /\ probes[i].ok = sources.development
                       /\ \E j \in Before(i) :
                             /\ SameResolution(i, j)
                             /\ probes[j].source = "packaged"
                             /\ ~ probes[j].ok
                 /\ probes[i].ok
                    => /\ \A j \in (i + 1)..Len(probes) : ~ SameResolution(i, j)
                       /\ threads[probes[i].thread].n = probes[i].n
                             => /\ threads[probes[i].thread].pc = "idle"
                                /\ threads[probes[i].thread].result.kind = "document"
    /\ \A t \in Threads :
          (threads[t].pc = "idle" /\ threads[t].n > 0 /\ ~ local_docs[threads[t].analyzer])
              => (threads[t].result.kind = "ValueError" <=> AllFailed(t, threads[t].n))

C18_Witness ==
    /\ sources.head = "404"
    /\ sources.get = "error"
    /\ ~ local_docs["a1"]
    /\ threads["t1"] = [pc |-> "idle", analyzer |-> "a1", n |-> 1,
                        result |-> Document("packaged", FALSE)]
    /\ Len(probes) = 3
    /\ probes[2].source = "GET" /\ ~ probes[2].ok
    /\ probes[3].source = "packaged" /\ probes[3].ok

(* C19: over any sequence of prompt builds of one process, on one analyzer or on
   several, the guidance is resolved at most once: after the probe or load that
   succeeded no build makes another.  Stated for builds that follow one another in
   one thread. *)
C19_SingleResolution ==
    threads["t2"].n = 0
        => \A i \in 1..Len(probes) : probes[i].ok => i = Len(probes)

\* thread t is inside the method: it has missed the cache and not yet returned
Resolving(t) == threads[t].pc \in {"remote", "local"}

(* C20: when several callers call the cached method on one analyzer while the cache
   is empty, one of them resolves and the others wait for its result: the resolution
   never runs in two callers at once. *)
C20_SingleFlight ==
    \A t, u \in Threads :
        (t # u /\ Resolving(t) /\ Resolving(u))
            => threads[t].analyzer # threads[u].analyzer

---------------------------------------------------------------------------
(* Usage statistics with an observation window of 0 days *)

(* C21: where the prompt is built and where the suggestions are normalized,
   runs_per_week is run_count * 7 / window for a window > 0 and 0 for a window of 0:
   neither operation fails on statistics whose window is 0. *)
C21_ZeroGuarded ==
    (analysis.pc = "raised" /\ Get(repository_stats, "analysis_days", 30) = 0)
        => analysis.error # "ZeroDivisionError"

---------------------------------------------------------------------------
(* analyzers/ai_analyzer.py: _build_workflow_prompt, _add_line_numbers_to_yaml *)

DigitChars == <<"0", "1", "2", "3", "4", "5", "6", "7", "8", "9">>

\* the decimal digits of n >= 0, as the format specifier d writes them
RECURSIVE Decimal(_)
Decimal(n) ==
    IF n < 10 THEN <<DigitChars[n + 1]>>
    ELSE Decimal(n \div 10) \o <<DigitChars[(n % 10) + 1]>>

\* a format width: the text is filled up on the left, and never cut
Padded(s, width, fill) ==
    IF Len(s) >= width THEN s ELSE [i \in 1..(width - Len(s)) |-> fill] \o s

\* f"WF{idx:02d}"
WorkflowId(idx) == <<"WF">> \o Padded(Decimal(idx), 2, "0")

\* a plausible slip: the lines counted from 0
add_line_numbers_from_zero(yaml_content) ==
    [i \in 1..Len(yaml_content) |->
        Padded(Decimal(i - 1), 3, " ") \o <<"| ", yaml_content[i]>>]

\* a YAML text is the sequence of its lines, which is what split("\n") makes of it;
\* the result is the sequence of lines that "\n".join puts together: f"{i:3d}| {line}"
add_line_numbers_to_yaml(yaml_content) ==
    [i \in 1..Len(yaml_content) |->
        Padded(Decimal(i), 3, " ") \o <<"| ", yaml_content[i]>>]

\* f"{x:.0f}" of x = num / den with num >= 0 and den > 0: the nearest whole number,
\* the even one of two that are equally near
RoundHalfEven(num, den) ==
    LET q == num \div den
        r == num % den
    IN  IF 2 * r < den THEN q
        ELSE IF 2 * r > den THEN q + 1
        ELSE IF q % 2 = 0 THEN q ELSE q + 1

\* the parts of the prompt that depend on the arguments: the guidance, the activity
\* line with the runs a week it shows, and the workflow sections in input order
build_workflow_prompt(patterns, wfs, stats) ==
    IF patterns.kind # "document" THEN Raised("ValueError")
    ELSE IF Get(stats, "analysis_days", 30) = 0 THEN Raised("ZeroDivisionError")
    ELSE Value(
        [optimization_patterns |-> patterns,
         runs_count |-> Get(stats, "runs_count", 0),
         analysis_days |-> Get(stats, "analysis_days", 30),
         runs_per_week |-> RoundHalfEven(Get(stats, "runs_count", 0) * 7,
                                         Get(stats, "analysis_days", 30)),
         total_workflows |-> Len(wfs),
         workflows_section |->
            [idx \in 1..Len(wfs) |->
                [workflow_id |-> WorkflowId(idx),
                 workflow_path |-> wfs[idx].path,
                 numbered_yaml |-> add_line_numbers_to_yaml(wfs[idx].content)]]])

\* a plausible slip: the debug prompt built without the usage statistics
generate_prompt_without_stats(patterns, wfs, stats) ==
    build_workflow_prompt(patterns, wfs, <<>>)

\* lines 83-89
generate_prompt_only(patterns, wfs, stats) == build_workflow_prompt(patterns, wfs, stats)

\* generate_prompt_only is called
GeneratePromptOnly ==
    /\ generated.pc = "idle"
    /\ LET prompt == generate_prompt_only(optimization_patterns, workflows, repository_stats)
       IN  generated' = IF prompt.ok THEN [pc |-> "returned", prompt |-> prompt.v]
                        ELSE [pc |-> "raised", error |-> prompt.error]
    /\ UNCHANGED <<workflows, optimization_patterns, submitted>>
    /\ UNCHANGED repository_stats
    /\ UNCHANGED <<ai_response, parsed, passes>>
    /\ UNCHANGED <<costVars, clientVars, repairVars, docVars, scanVars>>

---------------------------------------------------------------------------
(* The numbering of the prompt, on short and on long workflow files *)

\* the longest workflow file tried, in lines
MaxLines == 1000

\* a file of n lines, every second one empty
FileOf(n) == [k \in 1..n |-> IF k % 2 = 1 THEN "      - run: make" ELSE ""]

Paths == {".github/workflows/ci.yml", ".github/workflows/release.yml", "deploy.yml"}

\* the empty text, a text that ends with a line break, and long files
LongContents == {<<"">>, <<"name: ci", "">>, FileOf(MaxLines - 1), FileOf(MaxLines)}

\* the mappings of up to n distinct paths to a text each, in every order
WorkflowMaps(contents, n) ==
    {w \in SeqsUpTo([path : Paths, content : contents], n) :
        \A i, j \in 1..Len(w) : i # j => w[i].path # w[j].path}

Resolved == {Document("remote", FALSE), Document("packaged", FALSE)}

InitNumbering ==
    /\ InitCostIdle
    /\ InitClientIdle
    /\ InitRepairIdle
    /\ InitDocIdle
    /\ InitScanIdle
    /\ repository_stats = [runs_count |-> 300, analysis_days |-> 30]
    /\ ai_response = <<>>
    /\ parsed = [state |-> "idle"]
    /\ passes = 0
    /\ workflows \in WorkflowMaps(LongContents, 2)
    /\ optimization_patterns \in Resolved
    /\ generated = [pc |-> "idle"]
    /\ submitted = <<>>

NextNumbering == GeneratePromptOnly

SpecNumbering == InitNumbering /\ [][NextNumbering]_vars

\* the number a text of blanks and digits stands for, or -1
RECURSIVE NumberOf(_)
NumberOf(s) ==
    IF s = <<>> THEN -1
    ELSE LET d == {n \in 0..9 : DigitChars[n + 1] = s[Len(s)]}
         IN  IF d = {} THEN -1
             ELSE IF Len(s) = 1 THEN CHOOSE n \in d : TRUE
             ELSE LET rest == NumberOf(SubSeq(s, 1, Len(s) - 1))
                  IN  IF rest < 0 THEN -1 ELSE rest * 10 + (CHOOSE n \in d : TRUE)

\* the field before the "| " of a numbered line
FieldOf(line) == SubSeq(line, 1, Len(line) - 2)

\* every source is labelled WF and its position in two digits at least, with its path,
\* and the labels differ
Labelled ==
    LET sections == generated.prompt.workflows_section
    IN  /\ Len(sections) = Len(workflows)
        /\ \A i \in 1..Len(sections) :
              /\ sections[i].workflow_id[1] = "WF"
              /\ NumberOf(Tail(sections[i].workflow_id)) = i
              /\ Len(sections[i].workflow_id) = (IF i < 100 THEN 3 ELSE Len(Decimal(i)) + 1)
              /\ sections[i].workflow_path = workflows[i].path
        /\ \A i, j \in 1..Len(sections) :
              i # j => sections[i].workflow_id # sections[j].workflow_id

\* the k-th line of every source carries k, right-aligned in a field of the given
\* width (of the width of the number, if that is more, when the field may grow)
Numbered(width, grows) ==
    \A i \in 1..Len(workflows) :
        LET numbered == generated.prompt.workflows_section[i].numbered_yaml
        IN  /\ Len(numbered) = Len(workflows[i].content)
            /\ \A k \in 1..Len(numbered) :
                  /\ numbered[k][Len(numbered[k])] = workflows[i].content[k]
                  /\ numbered[k][Len(numbered[k]) - 1] = "| "
                  /\ NumberOf(SelectSeq(FieldOf(numbered[k]), NotSpace)) = k
                  /\ RStrip(FieldOf(numbered[k])) = FieldOf(numbered[k])
                  /\ Len(FieldOf(numbered[k])) =
                        (IF grows /\ Len(Decimal(k)) > width THEN Len(Decimal(k)) ELSE width)

(* C28 as stated: the i-th source is labelled WF and i in two digits with its path,
   labels differ, and the k-th line of every source carries the number k, counted
   per file, right-aligned in a field of 3 characters. *)
C28_ThreeCharacterField ==
    generated.pc = "returned" => (Labelled /\ Numbered(3, FALSE))

(* C28 as amended: the same, with the number right-aligned in a field of 3 characters
   up to line 999 and written in full, in a wider field, from line 1000 on. *)
C28_PromptNumbering ==
    generated.pc = "returned" => (Labelled /\ Numbered(3, TRUE))

C28_Witness ==
    /\ generated.pc = "returned"
    /\ Len(workflows) = 2
    /\ Len(workflows[1].content) = MaxLines
    /\ generated.prompt.workflows_section[2].workflow_id = <<"WF", "0", "2">>
    /\ generated.prompt.workflows_section[2].numbered_yaml[1]
          = <<" ", " ", "1", "| ", workflows[2].content[1]>>

---------------------------------------------------------------------------
(* commands/scan.py: ScanCommand.execute; collectors/workflow_collector.py *)

\* not x, for x None (written "none") or a string
Falsy(x) == x \in {"none", ""}

ScanResult(success, recommendations, estimated_savings, time_savings, error) ==
    [success |-> success, recommendations |-> recommendations,
     estimated_savings |-> estimated_savings, time_savings |-> time_savings,
     error |-> error]

\* a plausible slip: the failure returned without its message
FailureWithoutMessage(message) == ScanResult(FALSE, <<>>, 0, 0, "none")

\* the failure results of lines 69-75, 83-92, 96-105, 137-143 and 185-191
Failure(message) == ScanResult(FALSE, <<>>, 0, 0, message)

\* str(e) of the exceptions met
ErrorText ==
    [TypeError |-> "takes 5 positional arguments but 6 were given",
     GitHubAPIError |-> "GitHub API connection test failed",
     ValueError |-> "Cannot proceed without optimization patterns documentation.",
     ZeroDivisionError |-> "division by zero",
     RuntimeError |-> "AI analysis failed and no fallback available.",
     AttributeError |-> "'str' object has no attribute 'get'",
     OSError |-> "Failed to save prompt to file: [Errno 13] Permission denied",
     ReportError |-> "report"]

\* the call of a method that takes `takes` arguments after self with the arguments
\* args: Python raises TypeError when the numbers differ
Bound(args, takes) == Len(args) = takes

\* collect_workflow_data(self, owner, repo, token, max_history_days)
collect_workflow_data(args, github) ==
    IF ~ Bound(args, 4) THEN Raised("TypeError")
    ELSE IF github = "ok" THEN Value([runs_count |-> 300, analysis_days |-> args[4]])
    ELSE Raised("GitHubAPIError")

\* get_raw_workflows_for_ai(self, owner, repo, token)
get_raw_workflows_for_ai(args, github) ==
    IF ~ Bound(args, 3) THEN Raised("TypeError")
    ELSE IF github = "ok" THEN Value(<<[path |-> ".github/workflows/ci.yml",
                                        content |-> <<"name: ci", "">>]>>)
    ELSE Raised("GitHubAPIError")

\* AIWorkflowAnalyzer.__init__ (ai_analyzer.py, lines 25-32)
NewAnalyzer(ai_api_key) ==
    IF Falsy(ai_api_key) THEN Raised("ValueError") ELSE Value([local_docs |-> FALSE])

\* float(rec.get(key, 0)) added up over the recommendations
RECURSIVE Total(_, _)
Total(recommendations, key) ==
    IF recommendations = <<>> THEN 0
    ELSE Get(Head(recommendations), key, 0) + Total(Tail(recommendations), key)

\* a plausible slip: the one field added up twice
calculate_impact_time_twice(recommendations) ==
    <<Total(recommendations, "impact_time_minutes"),
      Total(recommendations, "impact_time_minutes")>>

\* _calculate_impact_from_ai_recommendations: total_savings, total_time
calculate_impact_from_ai_recommendations(recommendations) ==
    <<Total(recommendations, "monthly_cost_savings"),
      Total(recommendations, "impact_time_minutes")>>

\* a plausible slip: the check of line 95 left out
MissingAIKeyIgnored(ai_api_key) == FALSE

\* line 95
MissingAIKey(ai_api_key) == Falsy(ai_api_key)

Returning(stages, result) == [stages |-> stages, result |-> result]

\* lines 116-181, once both collector calls have returned: the analyzer, then the
\* prompt written to the file, or the analysis, the totals and the report
AfterCollection(a, stages) ==
    IF ~ NewAnalyzer(a.ai_api_key).ok
    THEN Returning(stages \o <<"AIWorkflowAnalyzer">>, Failure(ErrorText.ValueError))
    ELSE IF ~ Falsy(a.output_prompt_file)
    THEN IF a.world.prompt # "built"
         THEN Returning(stages \o <<"AIWorkflowAnalyzer", "generate_prompt_only">>,
                        Failure(ErrorText[a.world.prompt]))
         ELSE Returning(stages \o <<"AIWorkflowAnalyzer", "generate_prompt_only", "write">>,
                        IF a.world.write = "ok" THEN ScanResult(TRUE, <<>>, 0, 0, "none")
                        ELSE Failure(ErrorText.OSError))
    ELSE IF a.world.analysis.pc = "raised"
    THEN Returning(stages \o <<"AIWorkflowAnalyzer", "analyze_workflows">>,
                   Failure(ErrorText[a.world.analysis.error]))
    ELSE LET ai_recommendations == a.world.analysis.recommendations
             totals == calculate_impact_from_ai_recommendations(ai_recommendations)
         IN  Returning(stages \o <<"AIWorkflowAnalyzer", "analyze_workflows", "report">>,
                       IF a.world.report = "printed"
                       THEN ScanResult(TRUE, ai_recommendations, totals[1], totals[2], "none")
                       ELSE Failure(ErrorText.ReportError))

\* ScanCommand.execute: the stages it called, in order, and the result it returned
execute(a) ==
    IF ~ Contains(a.repository, "/")
    THEN Returning(<<>>, Failure("Repository must be in format 'owner/repo'"))
    ELSE
    LET token == IF Falsy(a.github_token) THEN a.config_github_token ELSE a.github_token
    IN  IF Falsy(token)
        THEN Returning(<<>>, Failure("GitHub token is required."))
        ELSE IF MissingAIKey(a.ai_api_key)
        THEN Returning(<<>>, Failure("AI API key is required for analysis."))
        ELSE
        LET workflow_data ==
                collect_workflow_data(
                    <<"owner", "repo", token, a.max_history_days, a.workflow_files>>,
                    a.world.github)
            raw_workflows ==
                get_raw_workflows_for_ai(<<"owner", "repo", token, a.workflow_files>>,
                                         a.world.github)
        IN  IF ~ workflow_data.ok
            THEN Returning(<<"collect_workflow_data">>,
                           Failure(ErrorText[workflow_data.error]))
            ELSE IF ~ raw_workflows.ok
            THEN Returning(<<"collect_workflow_data", "get_raw_workflows_for_ai">>,
                           Failure(ErrorText[raw_workflows.error]))
            ELSE AfterCollection(a, <<"collect_workflow_data", "get_raw_workflows_for_ai">>)

---------------------------------------------------------------------------
(* The scan command, and the two uses of the prompt builder *)

\* what the rest of the program and the outside do when execute gets to them: GitHub,
\* the prompt builder, the write of the prompt file, analyze_workflows, the reporter
Worlds ==
    LET stats == [runs_count |-> 300, analysis_days |-> 30]
        one == parse_ai_recommendations(
                   <<JMap(Example(JNum(3), JNum(Cents(3119)), JStr(PlainText)))>>, stats)
        fine == [github |-> "ok", prompt |-> "built", write |-> "ok",
                 analysis |-> [pc |-> "returned", recommendations |-> one.recommendations],
                 report |-> "printed"]
    IN  {fine,
         [fine EXCEPT !.analysis = [pc |-> "returned", recommendations |-> <<>>]],
         [fine EXCEPT !.analysis = [pc |-> "raised", error |-> "RuntimeError"]],
         [fine EXCEPT !.analysis = [pc |-> "raised", error |-> "AttributeError"]],
         [fine EXCEPT !.github = "GitHubAPIError"],
         [fine EXCEPT !.prompt = "ValueError"],
         [fine EXCEPT !.write = "OSError"]}

ScanArguments ==
    [repository : {<<"owner", "/", "repo">>, <<"repo">>},
     github_token : {"none", "ghp_a"},
     config_github_token : {"none", "ghp_b"},
     ai_api_key : {"none", "", "sk-ant"},
     output_prompt_file : {"none", "prompt.txt"},
     max_history_days : {30},
     workflow_files : {"none"},
     world : Worlds]

\* one short file, and statistics of 70 runs a week, 10.5 runs a week, a window of 0
ShortContents == {<<"name: ci", "">>}
PromptStats ==
    {[runs_count |-> 300, analysis_days |-> 30],
     [runs_count |-> 45, analysis_days |-> 30],
     [runs_count |-> 10, analysis_days |-> 0]}

InitScan ==
    /\ InitCostIdle
    /\ InitClientIdle
    /\ InitRepairIdle
    /\ InitDocIdle
    /\ repository_stats \in PromptStats
    /\ ai_response = <<>>
    /\ parsed = [state |-> "idle"]
    /\ passes = 0
    /\ workflows \in WorkflowMaps(ShortContents, 2)
    /\ optimization_patterns \in {Document("remote", FALSE), NoDocument}
    /\ generated = [pc |-> "idle"]
    /\ submitted = <<>>
    /\ impact = [pc |-> "idle"]
    /\ scan \in {[pc |-> "called", args |-> a] : a \in ScanArguments}

\* ScanCommand.execute, from the call to the result
Execute ==
    /\ scan.pc = "called"
    /\ LET done == execute(scan.args)
       IN  scan' = [pc |-> "returned", args |-> scan.args, stages |-> done.stages,
                    result |-> done.result]
    /\ UNCHANGED impact
    /\ UNCHANGED <<costVars, normVars, clientVars, repairVars, docVars, promptVars>>

\* analyze_workflows up to line 62: the prompt is built and handed to _call_ai_api,
\* or the error of the build is raised
Submit ==
    /\ submitted = <<>>
    /\ submitted' = <<build_workflow_prompt(optimization_patterns, workflows,
                                            repository_stats)>>
    /\ UNCHANGED <<workflows, optimization_patterns, generated>>
    /\ UNCHANGED <<costVars, normVars, clientVars, repairVars, docVars, scanVars>>

NextScan == Execute \/ GeneratePromptOnly \/ Submit

SpecScan == InitScan /\ [][NextScan]_vars

Returns == scan.pc = "returned"

C22_SamePrompt ==
    /\ (generated.pc # "idle" /\ submitted # <<>>)
          => generated = IF submitted[1].ok
                         THEN [pc |-> "returned", prompt |-> submitted[1].v]
                         ELSE [pc |-> "raised", error |-> submitted[1].error]
    /\ (Returns /\ ~ Falsy(scan.args.output_prompt_file))
          => /\ scan.result.recommendations = <<>>
             /\ scan.result.estimated_savings = 0
             /\ scan.result.time_savings = 0
             /\ ~ Contains(scan.stages, "analyze_workflows")

(* C22: generate_prompt_only returns the prompt that analyze_workflows submits for the
   same workflows and statistics, and the step that generates it submits nothing and
   sends no request; execute with a prompt file returns an empty list and zero totals
   without calling analyze_workflows. *)
C22_DebugPrompt ==
    /\ [] C22_SamePrompt
    /\ [][generated' # generated
            => (submitted' = submitted /\ log' = log /\ api' = api)]_vars

C22_Witness ==
    /\ generated.pc = "returned"
    /\ generated.prompt.runs_per_week = 10
    /\ submitted = <<Value(generated.prompt)>>
    /\ Returns
    /\ scan.args.output_prompt_file = "prompt.txt"
    /\ ~ MissingAIKey(scan.args.ai_api_key)
    /\ scan.stages # <<>>

(* C23: with no AI API key configured, constructing the analyzer raises and execute
   returns a failure; in that invocation nothing is collected, no analyzer is made,
   no prompt built and no request sent. *)
C23_MissingCredential ==
    (Returns /\ Falsy(scan.args.ai_api_key))
        => /\ ~ NewAnalyzer(scan.args.ai_api_key).ok
           /\ ~ scan.result.success
           /\ scan.result.error # "none"
           /\ scan.stages = <<>>

C23_Witness ==
    /\ Returns
    /\ scan.args.ai_api_key = ""
    /\ Contains(scan.args.repository, "/")
    /\ scan.args.github_token = "ghp_a"
    /\ scan.result = Failure("AI API key is required for analysis.")

(* C24: whenever a stage of an invocation fails, execute returns success = false with
   an empty list, zero totals and a message that is not empty; no result carries a
   partial list, and success = true carries no error. *)
C24_AtomicFailure ==
    Returns
        => /\ ~ scan.result.success
              => /\ scan.result.recommendations = <<>>
                 /\ scan.result.estimated_savings = 0
                 /\ scan.result.time_savings = 0
                 /\ scan.result.error \notin {"none", ""}
           /\ scan.result.success => scan.result.error = "none"
           /\ (scan.stages # <<>> /\ scan.stages[Len(scan.stages)] = "collect_workflow_data")
                 => ~ scan.result.success

C24_Witness ==
    /\ Returns
    /\ scan.stages = <<"collect_workflow_data">>
    /\ scan.result = Failure(ErrorText.TypeError)

\* the arguments and the surroundings of the happy path
HappyPath ==
    /\ Contains(scan.args.repository, "/")
    /\ ~ (Falsy(scan.args.github_token) /\ Falsy(scan.args.config_github_token))
    /\ ~ Falsy(scan.args.ai_api_key)
    /\ Falsy(scan.args.output_prompt_file)
    /\ scan.args.world.github = "ok"
    /\ scan.args.world.analysis.pc = "returned"
    /\ scan.args.world.report = "printed"

(* C26: with a well-formed repository, a GitHub token and an AI key, no prompt file,
   collectors that succeed and a parsable JSON array from the service, execute runs
   the stages in order and returns success = true with the normalized
   recommendations and their totals. *)
C26_HappyPath ==
    (Returns /\ HappyPath)
        => /\ scan.result.success
           /\ scan.result.recommendations = scan.args.world.analysis.recommendations
           /\ scan.stages = <<"collect_workflow_data", "get_raw_workflows_for_ai",
                              "AIWorkflowAnalyzer", "analyze_workflows", "report">>

---------------------------------------------------------------------------
(* The ranges of the emitted fields *)

\* a suggestion whose three numeric fields, where present, are numbers
NumericFields(x) ==
    /\ x.t = "map"
    /\ \A k \in NumericKeys : k \in DOMAIN x.m => x.m[k].t = "num"

(* C29: every record emitted for suggestions with numeric fields, negative claimed
   savings, negative time and out-of-range confidence included, has
   impact_time_minutes >= 0, monthly_cost_savings >= 0 and a confidence_score from
   0 to 1. *)
C29_FieldRanges ==
    (\A i \in 1..Len(ai_response) : NumericFields(ai_response[i]))
        => \A i \in 1..Len(Emitted) :
              /\ Emitted[i].impact_time_minutes >= 0
              /\ Emitted[i].monthly_cost_savings >= 0
              /\ Emitted[i].confidence_score >= 0
              /\ Emitted[i].confidence_score <= 100

---------------------------------------------------------------------------
(* The remote probe *)

(* C27: the probe sends a HEAD request first; a HEAD that is rejected, by any status
   but 200 or by a timeout or connection error, is followed by a GET before the
   remote source is given up; the probe succeeds exactly when one of the two
   returned 200, and then the guidance is the reference to the URL and neither the
   packaged nor the development copy is loaded. *)
C27_RemoteProbe ==
    \A i \in 1..Len(probes) :
        /\ probes[i].source = "GET"
              => /\ SameResolution(i, i - 1)
                 /\ probes[i - 1].source = "HEAD" /\ ~ probes[i - 1].ok
        /\ (probes[i].source = "HEAD" /\ ~ probes[i].ok)
              => /\ i < Len(probes)
                 /\ SameResolution(i, i + 1)
                 /\ probes[i + 1].source = "GET"
        /\ (probes[i].source \in {"HEAD", "GET"} /\ probes[i].ok)
              => /\ \A j \in 1..Len(probes) :
                       SameResolution(i, j) => probes[j].source \in {"HEAD", "GET"}
                 /\ threads[probes[i].thread].n = probes[i].n
                       => threads[probes[i].thread].result = Document("remote", FALSE)

---------------------------------------------------------------------------
(* The totals of a run: lines 145-148 of execute, on what the normalizer returned *)

InitTotals == InitNorm

\* total_savings, total_time = self._calculate_impact_from_ai_recommendations(...)
CalculateImpact ==
    /\ parsed.state = "returned"
    /\ impact.pc = "idle"
    /\ LET totals == calculate_impact_from_ai_recommendations(parsed.recommendations)
       IN  impact' = [pc |-> "returned", estimated_savings |-> totals[1],
                      time_savings |-> totals[2]]
    /\ UNCHANGED scan
    /\ UNCHANGED <<costVars, normVars, clientVars, repairVars, docVars, promptVars>>

NextTotals == Parse \/ CalculateImpact

SpecTotals == InitTotals /\ [][NextTotals]_vars

\* the savings the i-th suggestion claimed
Claimed(i) ==
    Float(Get(ai_response[i].m, "monthly_cost_savings", JNum(0)), "monthly_cost_savings").v

\* the savings of the i-th emitted record after validation: the claimed value where
\* the validator judged it reasonable, the validator's expected value otherwise
Corrected(i) ==
    LET validation ==
            validate_cost_calculation(Emitted[i].impact_time_minutes, Claimed(i),
                                      ValidatorRuns, "ubuntu-latest")
    IN  IF validation.is_reasonable THEN Claimed(i) ELSE validation.expected_savings

RECURSIVE SumOfCorrected(_)
SumOfCorrected(n) == IF n = 0 THEN 0 ELSE Corrected(n) + SumOfCorrected(n - 1)

RECURSIVE SumOfTime(_)
SumOfTime(n) ==
    IF n = 0 THEN 0 ELSE Emitted[n].impact_time_minutes + SumOfTime(n - 1)

(* C25: the totals computed from the emitted recommendations are the sum of their
   monthly_cost_savings, taking the validator's expected value for each adjusted
   record, and the sum of their impact_time_minutes; both are 0 for an empty list. *)
C25_AggregateTotals ==
    impact.pc = "returned"
        => /\ impact.estimated_savings = SumOfCorrected(Len(Emitted))
           /\ impact.time_savings = SumOfTime(Len(Emitted))
           /\ Emitted = <<>> => (impact.estimated_savings = 0 /\ impact.time_savings = 0)

\* two records, one adjusted and one not, have been added up
C25_Witness ==
    /\ impact.pc = "returned"
    /\ Len(Emitted) = 2
    /\ parsed.validation_stats.adjusted = 1
    /\ impact.estimated_savings > 0
    /\ impact.estimated_savings # impact.time_savings

---------------------------------------------------------------------------
(* The prompt's formula followed to the letter, and the answer validated *)

\* line 153: $0.008/minute x time_saved x {runs_per_week:.0f} runs/week x 4.33 weeks,
\* with the whole number of runs a week the prompt shows
PromptFormula(time_saved, shown_runs_per_week) ==
    DefaultRate * time_saved * (RunsPerWeek(shown_runs_per_week) * WeeksPerMonth)

InitAgree ==
    /\ InitCostIdle
    /\ InitClientIdle
    /\ InitRepairIdle
    /\ InitDocIdle
    /\ InitScanIdle
    /\ repository_stats \in StatsValues
    /\ ai_response = <<>>
    /\ parsed = [state |-> "idle"]
    /\ passes = 0
    /\ workflows \in WorkflowMaps(ShortContents, 1)
    /\ optimization_patterns = Document("remote", FALSE)
    /\ generated = [pc |-> "idle"]
    /\ submitted = <<>>

\* the service answers the submitted prompt with one suggestion whose savings are
\* the prompt's formula for a time of 1 to 60 minutes, when that is at most 1000 USD
Follow(time_saved) ==
    /\ submitted # <<>>
    /\ submitted[1].ok
    /\ ai_response = <<>>
    /\ LET savings == PromptFormula(time_saved, submitted[1].v.runs_per_week)
       IN  /\ savings <= Dollars(MaxMonthlySavings)
           /\ ai_response' = <<JMap(Example(JNum(time_saved), JNum(savings),
                                            JStr(PlainText)))>>
    /\ UNCHANGED <<repository_stats, parsed, passes>>
    /\ UNCHANGED <<costVars, clientVars, repairVars, docVars, promptVars, scanVars>>

\* the answer is handed to _parse_ai_recommendations with the same statistics
ParseAnswer == ai_response # <<>> /\ Parse

NextAgree ==
    \/ Submit
    \/ \E time_saved \in 1..MaxTimeSavings : Follow(time_saved)
    \/ ParseAnswer

SpecAgree == InitAgree /\ [][NextAgree]_vars

(* C30: a suggestion whose monthly_cost_savings is the formula the prompt prints,
   with the runs a week the prompt shows, a time saved of 1 to 60 minutes and a
   result of at most 1000 USD, is judged reasonable and emitted with its savings
   unchanged, whatever the usage statistics are. *)
C30_PromptAndValidatorAgree ==
    (Returned /\ ai_response # <<>>)
        => /\ parsed.validation_stats.adjusted = 0
           /\ Emitted[1].monthly_cost_savings = Claimed(1)

====
